---- MODULE Spec2Model ----
(***************************************************************************)
(* Cognito -> PostgreSQL synchronisation triggers.                         *)
(*                                                                         *)
(*   lambda/postConfirmation.py   handler "conf": upsert of a users row    *)
(*                                and insert of a user_profiles row in one *)
(*                                transaction                              *)
(*   lambda/postAuthentication.py handler "auth": update of last_login     *)
(*                                                                         *)
(* Each Lambda module keeps a module-level connection_pool that lives as   *)
(* long as its process.  The handlers are modelled statement by statement; *)
(* every database round trip can succeed or raise.  Strings are tuples of  *)
(* one-character strings so that email.split('@')[0] is computed.          *)
(***************************************************************************)
EXTENDS Integers, Sequences, FiniteSets, TLC

\* ------------------------------------------------------------------ bounds
MaxClock == 1
MaxInvocations == 3
MaxOverlapping == 2

\* ------------------------------------------------------- program constants
maxconn == 5

\* ------------------------------------------------------------------ values
Handlers == {"conf", "auth"}
MainThread == "t1"
Threads == {"t1", "t2"}
PoolIds == 1..Cardinality(Threads)

\* Python None for a string-valued attribute, SQL NULL for a timestamp,
\* and the unset module global.
None == <<"None">>
NoSub == "None"
NullTime == -1
NoPool == 0

Subs == {"u1", "u2"}
Emails == { <<"b", "@", "x">>, <<"a", "@", "@">> }
Usernames == { <<>>, <<"n">> }

\* request.userAttributes of the trigger event
Events ==
  [sub : Subs \cup {NoSub},
   email : Emails \cup {None},
   preferred_username : Usernames \cup {None}]

\* postAuthentication.handler reads only sub
AuthEvents ==
  { ev \in Events : ev.email = None /\ ev.preferred_username = None }

\* the confirmation events used when invocations overlap
PlainEvents ==
  { ev \in Events : ev.email # None /\ ev.preferred_username = None }

VARIABLES
  users,            \* committed rows of table users, in insertion order
  user_profiles,    \* committed rows of table user_profiles
  clock,            \* CURRENT_TIMESTAMP source
  connection_pool,  \* per process: the module global (NoPool when None)
  poolsCreated,     \* per process: pools constructed so far
  checkedOut,       \* per process and pool: connections handed out
  invocations,      \* trigger events delivered so far
  frame,            \* per invocation: position and locals of handler()
  obs               \* per invocation: what the caller and a test observe

vars == <<users, user_profiles, clock, connection_pool, poolsCreated,
          checkedOut, invocations, frame, obs>>

dbVars == <<users, user_profiles>>
poolVars == <<connection_pool, poolsCreated, checkedOut>>

\* ------------------------------------------------------------- Python bits
\* bool(x) for an optional string: None and '' are falsy.
Truthy(s) == s # None /\ s # <<>>

\* index of the first '@' of s, Len(s)+1 when there is none
RECURSIVE FindAt(_, _)
FindAt(s, i) ==
  IF i > Len(s) THEN i
  ELSE IF s[i] = "@" THEN i
  ELSE FindAt(s, i + 1)

\* email.rsplit('@', 1)[0]: cuts at the last '@' instead of the first
RECURSIVE SplitAtLast(_)
SplitAtLast(s) ==
  IF s = <<>> THEN <<>>
  ELSE IF s[Len(s)] = "@" THEN SubSeq(s, 1, Len(s) - 1)
  ELSE SplitAtLast(SubSeq(s, 1, Len(s) - 1))

\* email.split('@')[0]
SplitAt0(s) == SubSeq(s, 1, FindAt(s, 1) - 1)

\* preferred_username or email.split('@')[0]; defined when it does not raise
NicknameRaises(ev) == ~Truthy(ev.preferred_username) /\ ev.email = None

Nickname(ev) ==
  IF Truthy(ev.preferred_username) THEN ev.preferred_username
  ELSE SplitAt0(ev.email)

\* ---------------------------------------------------------------- SQL bits
RowsOf(tbl, uid) == { i \in 1..Len(tbl) : tbl[i].user_id = uid }

HasRow(tbl, uid) == RowsOf(tbl, uid) # {}

TheRow(tbl, uid) == tbl[CHOOSE i \in RowsOf(tbl, uid) : TRUE]

\* the same INSERT with the email and nickname parameters in the wrong order
NewUserRowSwapped(uid, email, nickname, now) ==
  [user_id |-> uid, email |-> nickname, nickname |-> email,
   status |-> "active", created_at |-> now, updated_at |-> now,
   last_login |-> NullTime]

\* INSERT INTO users ... VALUES (uid, email, nickname, 'active', now, now)
NewUserRow(uid, email, nickname, now) ==
  [user_id |-> uid, email |-> email, nickname |-> nickname,
   status |-> "active", created_at |-> now, updated_at |-> now,
   last_login |-> NullTime]

\* a conflict clause that rewrites the whole row
ConflictOverwrite(old, email, nickname, now) ==
  [user_id |-> old.user_id, email |-> email, nickname |-> nickname,
   status |-> "active", created_at |-> now, updated_at |-> now,
   last_login |-> NullTime]

\* ON CONFLICT (user_id) DO UPDATE SET email, nickname, updated_at
ConflictUpdate(old, email, nickname, now) ==
  [old EXCEPT !.email = email, !.nickname = nickname, !.updated_at = now]

\* SET last_login = updated_at: the wrong column on the right-hand side
LoginUpdateStale(old, now) == [old EXCEPT !.last_login = old.updated_at]

\* UPDATE users SET last_login = CURRENT_TIMESTAMP
LoginUpdate(old, now) == [old EXCEPT !.last_login = now]

\* INSERT INTO user_profiles (user_id, created_at, updated_at)
NewProfileRow(uid, now) ==
  [user_id |-> uid, created_at |-> now, updated_at |-> now]

\* the effect of one staged write on a committed table
ApplyOp(tbl, op) ==
  IF op.op = "insert" THEN Append(tbl, op.row)
  ELSE [i \in 1..Len(tbl) |->
          IF tbl[i].user_id = op.row.user_id THEN op.row ELSE tbl[i]]

RECURSIVE ApplyAll(_, _)
ApplyAll(tbl, ops) ==
  IF ops = <<>> THEN tbl ELSE ApplyAll(ApplyOp(tbl, Head(ops)), Tail(ops))

\* Another open transaction holds the row lock of uid in its write set.
Locked(t, uid) ==
  \E u \in Threads \ {t} :
    \E i \in 1..Len(frame[u].txUsers) : frame[u].txUsers[i].row.user_id = uid

\* ------------------------------------------------------------------ frames
IdleFrame ==
  [pc |-> "idle", handler |-> "conf",
   event |-> [sub |-> NoSub, email |-> None, preferred_username |-> None],
   user_id |-> NoSub, email |-> None, nickname |-> None,
   pool |-> NoPool, conn |-> FALSE, now |-> NullTime,
   txUsers |-> <<>>, txProfiles |-> <<>>, ret |-> "none"]

IdleObs ==
  [callStart |-> 0, preUsers |-> <<>>, preProfiles |-> <<>>,
   baseline |-> [h \in Handlers |-> [p \in PoolIds |-> 0]],
   acquired |-> 0, failedAt |-> {}, path |-> "none",
   result |-> "none", returned |-> <<>>]

Init ==
  /\ users = <<>>
  /\ user_profiles = <<>>
  /\ clock = 0
  /\ connection_pool = [h \in Handlers |-> NoPool]
  /\ poolsCreated = [h \in Handlers |-> 0]
  /\ checkedOut = [h \in Handlers |-> [p \in PoolIds |-> 0]]
  /\ invocations = 0
  /\ frame = [t \in Threads |-> IdleFrame]
  /\ obs = [t \in Threads |-> IdleObs]

\* Time passes between any two statements.
Tick ==
  /\ clock < MaxClock
  /\ clock' = clock + 1
  /\ UNCHANGED <<users, user_profiles, connection_pool, poolsCreated,
                 checkedOut, invocations, frame, obs>>


\* --------------------------------------------------------- frame updates
SetFrame(t, f) == frame' = [frame EXCEPT ![t] = f]

SetObs(t, o) == obs' = [obs EXCEPT ![t] = o]

\* a database call of invocation t raised at the named step
Failed(t, step) == [obs[t] EXCEPT !.failedAt = @ \cup {step}]

NewObs ==
  [IdleObs EXCEPT !.callStart = clock, !.preUsers = users,
                  !.preProfiles = user_profiles, !.baseline = checkedOut]

NewFrame(h, ev) ==
  [IdleFrame EXCEPT !.handler = h, !.event = ev, !.user_id = ev.sub]

\* ----------------------------------------------- handler(), first lines
\* postConfirmation.handler up to the call of get_connection_pool.  The
\* nickname expression raises AttributeError outside the try block when
\* there is neither a usable preferred_username nor an email.
ConfInvoke(t, ev, cap) ==
  /\ frame[t].pc \in {"idle", "done"}
  /\ invocations < cap
  /\ IF NicknameRaises(ev)
     THEN /\ SetFrame(t, [NewFrame("conf", ev) EXCEPT !.pc = "done"])
          /\ SetObs(t, [NewObs EXCEPT !.result = "raised"])
     ELSE /\ SetFrame(t, [NewFrame("conf", ev) EXCEPT
                            !.email = ev.email,
                            !.nickname = Nickname(ev),
                            !.pc = "check_pool"])
          /\ SetObs(t, NewObs)
  /\ invocations' = invocations + 1
  /\ UNCHANGED <<dbVars, clock, poolVars>>

\* postAuthentication.handler up to the call of get_connection_pool
AuthInvoke(t, ev, cap) ==
  /\ frame[t].pc \in {"idle", "done"}
  /\ invocations < cap
  /\ SetFrame(t, [NewFrame("auth", ev) EXCEPT !.pc = "check_pool"])
  /\ SetObs(t, NewObs)
  /\ invocations' = invocations + 1
  /\ UNCHANGED <<dbVars, clock, poolVars>>

\* ---------------------------------------------------- get_connection_pool
\* if connection_pool is None:
CheckPool(t) ==
  /\ frame[t].pc = "check_pool"
  /\ SetFrame(t, [frame[t] EXCEPT !.pc =
        IF connection_pool[frame[t].handler] = NoPool
        THEN "create_pool" ELSE "return_pool"])
  /\ UNCHANGED <<dbVars, clock, poolVars, invocations, obs>>

\* connection_pool = SimpleConnectionPool(1, 5, ...): the constructor opens
\* minconn connections, so it raises when the database cannot be reached;
\* the call is outside the handler's try block.
CreatePool(t) ==
  /\ frame[t].pc = "create_pool"
  /\ LET h == frame[t].handler
         id == poolsCreated[h] + 1
     IN \/ /\ connection_pool' = [connection_pool EXCEPT ![h] = id]
           /\ poolsCreated' = [poolsCreated EXCEPT ![h] = id]
           /\ SetFrame(t, [frame[t] EXCEPT !.pc = "return_pool"])
           /\ UNCHANGED <<checkedOut, obs>>
        \/ /\ SetFrame(t, [frame[t] EXCEPT !.pc = "done"])
           /\ SetObs(t, [Failed(t, "pool") EXCEPT !.result = "raised"])
           /\ UNCHANGED poolVars
  /\ UNCHANGED <<dbVars, clock, invocations>>

\* return connection_pool; pool = get_connection_pool(); conn = None
ReturnPool(t) ==
  /\ frame[t].pc = "return_pool"
  /\ SetFrame(t, [frame[t] EXCEPT
        !.pool = connection_pool[frame[t].handler], !.pc = "getconn"])
  /\ UNCHANGED <<dbVars, clock, poolVars, invocations, obs>>

\* ------------------------------------------------------------ pool calls
\* conn = pool.getconn(); cursor = conn.cursor()
\* PoolError when maxconn connections are out, OperationalError when a new
\* connection cannot be opened; conn stays None in both cases.
GetConn(t, okPc, errPc) ==
  LET h == frame[t].handler
      p == frame[t].pool
  IN \/ /\ checkedOut[h][p] < maxconn
        /\ checkedOut' = [checkedOut EXCEPT ![h][p] = @ + 1]
        /\ SetFrame(t, [frame[t] EXCEPT !.conn = TRUE, !.pc = okPc])
        /\ SetObs(t, [obs[t] EXCEPT !.acquired = @ + 1])
     \/ /\ SetFrame(t, [frame[t] EXCEPT !.pc = errPc])
        /\ SetObs(t, Failed(t, "getconn"))
        /\ UNCHANGED checkedOut

\* putconn at the end of the except block instead of in a finally clause:
\* it is skipped when the rollback before it raises
FinallyNoRelease(t) ==
  /\ frame[t].pc = "finally"
  /\ IF frame[t].conn /\ frame[t].ret = "event"
     THEN checkedOut' = [checkedOut EXCEPT
                           ![frame[t].handler][frame[t].pool] = @ - 1]
     ELSE UNCHANGED checkedOut
  /\ frame' = [frame EXCEPT ![t] =
        [@ EXCEPT !.conn = FALSE, !.txUsers = <<>>, !.txProfiles = <<>>,
                  !.pc = "done"]]
  /\ obs' = [obs EXCEPT ![t] =
        IF frame[t].ret = "event"
        THEN [@ EXCEPT !.result = "returned", !.returned = <<frame[t].event>>]
        ELSE [@ EXCEPT !.result = "raised"]]
  /\ UNCHANGED <<dbVars, clock, connection_pool, poolsCreated, invocations>>

\* finally: if conn: pool.putconn(conn)
\* putconn rolls back or closes a connection that is still in a
\* transaction, so whatever was not committed is gone.
Finally(t) ==
  LET h == frame[t].handler
      p == frame[t].pool
  IN /\ frame[t].pc = "finally"
     /\ IF frame[t].conn
        THEN checkedOut' = [checkedOut EXCEPT ![h][p] = @ - 1]
        ELSE UNCHANGED checkedOut
     /\ SetFrame(t, [frame[t] EXCEPT !.conn = FALSE, !.txUsers = <<>>,
                                     !.txProfiles = <<>>, !.pc = "done"])
     /\ SetObs(t, IF frame[t].ret = "event"
                  THEN [obs[t] EXCEPT !.result = "returned",
                                      !.returned = <<frame[t].event>>]
                  ELSE [obs[t] EXCEPT !.result = "raised"])
     /\ UNCHANGED <<dbVars, clock, connection_pool, poolsCreated, invocations>>

\* ------------------------------------------- postConfirmation.handler
ConfGetConn(t) ==
  /\ frame[t].pc = "getconn"
  /\ frame[t].handler = "conf"
  /\ GetConn(t, "begin", "rollback")
  /\ UNCHANGED <<dbVars, clock, connection_pool, poolsCreated, invocations>>

\* cursor.execute('BEGIN'): CURRENT_TIMESTAMP is the start of the transaction
ConfBegin(t) ==
  /\ frame[t].pc = "begin"
  /\ \/ /\ SetFrame(t, [frame[t] EXCEPT !.now = clock, !.pc = "upsert"])
        /\ UNCHANGED obs
     \/ /\ SetFrame(t, [frame[t] EXCEPT !.pc = "rollback"])
        /\ SetObs(t, Failed(t, "begin"))
  /\ UNCHANGED <<dbVars, clock, poolVars, invocations>>

\* the row the upsert leaves in users
UpsertOp(tbl, uid, email, nickname, now) ==
  IF HasRow(tbl, uid)
  THEN [op |-> "update",
        row |-> ConflictUpdate(TheRow(tbl, uid), email, nickname, now)]
  ELSE [op |-> "insert", row |-> NewUserRow(uid, email, nickname, now)]

\* cursor.execute(user_query, (user_id, email, nickname)); fetchone()
\* A NULL user_id violates the primary key; a concurrent writer of the same
\* key makes the statement wait.
ConfUpsert(t) ==
  /\ frame[t].pc = "upsert"
  /\ \/ /\ frame[t].user_id # NoSub
        /\ ~Locked(t, frame[t].user_id)
        /\ SetFrame(t, [frame[t] EXCEPT
              !.txUsers = Append(@, UpsertOp(users, frame[t].user_id,
                                   frame[t].email, frame[t].nickname,
                                   frame[t].now)),
              !.pc = "profile"])
        /\ UNCHANGED obs
     \/ /\ SetFrame(t, [frame[t] EXCEPT !.pc = "rollback"])
        /\ SetObs(t, Failed(t, "upsert"))
  /\ UNCHANGED <<dbVars, clock, poolVars, invocations>>

\* the profile INSERT applied without looking for an existing row
ProfileOpsNoConflict(tbl, uid, now) ==
  << [op |-> "insert", row |-> NewProfileRow(uid, now)] >>

\* INSERT INTO user_profiles ... ON CONFLICT (user_id) DO NOTHING
ProfileOps(tbl, uid, now) ==
  IF HasRow(tbl, uid) THEN <<>>
  ELSE << [op |-> "insert", row |-> NewProfileRow(uid, now)] >>

\* cursor.execute(profile_query, (user_id,)); fetchone()
ConfProfile(t) ==
  /\ frame[t].pc = "profile"
  /\ \/ /\ SetFrame(t, [frame[t] EXCEPT
              !.txProfiles = @ \o ProfileOps(user_profiles, frame[t].user_id,
                                             frame[t].now),
              !.pc = "commit"])
        /\ UNCHANGED obs
     \/ /\ SetFrame(t, [frame[t] EXCEPT !.pc = "rollback"])
        /\ SetObs(t, Failed(t, "profile"))
  /\ UNCHANGED <<dbVars, clock, poolVars, invocations>>

\* conn.commit(); cursor.close(); return event
ConfCommit(t) ==
  /\ frame[t].pc = "commit"
  /\ frame[t].handler = "conf"
  /\ \/ /\ users' = ApplyAll(users, frame[t].txUsers)
        /\ user_profiles' = ApplyAll(user_profiles, frame[t].txProfiles)
        /\ SetFrame(t, [frame[t] EXCEPT !.txUsers = <<>>, !.txProfiles = <<>>,
                                        !.ret = "event", !.pc = "finally"])
        /\ SetObs(t, [obs[t] EXCEPT !.path = "ok"])
     \/ /\ SetFrame(t, [frame[t] EXCEPT !.pc = "rollback"])
        /\ SetObs(t, Failed(t, "commit"))
        /\ UNCHANGED dbVars
  /\ UNCHANGED <<clock, poolVars, invocations>>

\* except Exception: if conn: conn.rollback(); ...; return event
\* conn.rollback() raises on a connection the outage has closed, and that
\* exception leaves the handler.
ConfRollback(t) ==
  /\ frame[t].pc = "rollback"
  /\ \/ /\ SetFrame(t, [frame[t] EXCEPT !.txUsers = <<>>, !.txProfiles = <<>>,
                                        !.ret = "event", !.pc = "finally"])
        /\ SetObs(t, [obs[t] EXCEPT !.path = "error"])
     \/ /\ frame[t].conn
        /\ SetFrame(t, [frame[t] EXCEPT !.txUsers = <<>>, !.txProfiles = <<>>,
                                        !.ret = "raise", !.pc = "finally"])
        /\ SetObs(t, [Failed(t, "rollback") EXCEPT !.path = "error"])
  /\ UNCHANGED <<dbVars, clock, poolVars, invocations>>

ConfFinally(t) ==
  /\ frame[t].handler = "conf"
  /\ Finally(t)

\* ------------------------------------------ postAuthentication.handler
AuthGetConn(t) ==
  /\ frame[t].pc = "getconn"
  /\ frame[t].handler = "auth"
  /\ GetConn(t, "update", "except")
  /\ UNCHANGED <<dbVars, clock, connection_pool, poolsCreated, invocations>>

\* UPDATE users SET last_login = CURRENT_TIMESTAMP WHERE user_id = %s
LoginOps(tbl, uid, now) ==
  IF HasRow(tbl, uid)
  THEN << [op |-> "update", row |-> LoginUpdate(TheRow(tbl, uid), now)] >>
  ELSE <<>>

\* cursor.execute(query, (user_id,)); result = cursor.fetchone()
\* The statement opens the transaction, so CURRENT_TIMESTAMP is its time.
AuthUpdate(t) ==
  /\ frame[t].pc = "update"
  /\ \/ /\ ~(HasRow(users, frame[t].user_id) /\ Locked(t, frame[t].user_id))
        /\ SetFrame(t, [frame[t] EXCEPT
              !.now = clock,
              !.txUsers = @ \o LoginOps(users, frame[t].user_id, clock),
              !.pc = "commit"])
        /\ SetObs(t, [obs[t] EXCEPT !.path =
              IF HasRow(users, frame[t].user_id)
              THEN "updated" ELSE "notfound"])
     \/ /\ SetFrame(t, [frame[t] EXCEPT !.pc = "except"])
        /\ SetObs(t, Failed(t, "update"))
  /\ UNCHANGED <<dbVars, clock, poolVars, invocations>>

\* conn.commit(); cursor.close(); return event
AuthCommit(t) ==
  /\ frame[t].pc = "commit"
  /\ frame[t].handler = "auth"
  /\ \/ /\ users' = ApplyAll(users, frame[t].txUsers)
        /\ SetFrame(t, [frame[t] EXCEPT !.txUsers = <<>>,
                                        !.ret = "event", !.pc = "finally"])
        /\ UNCHANGED obs
     \/ /\ SetFrame(t, [frame[t] EXCEPT !.pc = "except"])
        /\ SetObs(t, Failed(t, "commit"))
        /\ UNCHANGED users
  /\ UNCHANGED <<user_profiles, clock, poolVars, invocations>>

\* except Exception: print(...); return event
AuthExcept(t) ==
  /\ frame[t].pc = "except"
  /\ SetFrame(t, [frame[t] EXCEPT !.ret = "event", !.pc = "finally"])
  /\ SetObs(t, [obs[t] EXCEPT !.path = "error"])
  /\ UNCHANGED <<dbVars, clock, poolVars, invocations>>

AuthFinally(t) ==
  /\ frame[t].handler = "auth"
  /\ Finally(t)

\* ---------------------------------------------------------- specifications
Step(t, cap, confEvents) ==
  \/ \E ev \in confEvents : ConfInvoke(t, ev, cap)
  \/ \E ev \in AuthEvents : AuthInvoke(t, ev, cap)
  \/ CheckPool(t)
  \/ CreatePool(t)
  \/ ReturnPool(t)
  \/ ConfGetConn(t)
  \/ ConfBegin(t)
  \/ ConfUpsert(t)
  \/ ConfProfile(t)
  \/ ConfCommit(t)
  \/ ConfRollback(t)
  \/ ConfFinally(t)
  \/ AuthGetConn(t)
  \/ AuthUpdate(t)
  \/ AuthCommit(t)
  \/ AuthExcept(t)
  \/ AuthFinally(t)

\* One invocation at a time: the trigger runtime runs a handler to completion
\* before it hands the process the next event.
Next == Tick \/ Step(MainThread, MaxInvocations, Events)

Spec == Init /\ [][Next]_vars

\* Overlapping invocations, in one process or in both.
NextOverlap == Tick \/ \E t \in Threads : Step(t, MaxOverlapping, PlainEvents)

SpecOverlap == Init /\ [][NextOverlap]_vars

\* ------------------------------------------------------------ observations
Done(t) == frame[t].pc = "done"

IsConf(t) == frame[t].handler = "conf"

IsAuth(t) == frame[t].handler = "auth"

\* the subject id had a users row when the invocation began
Known(t) == HasRow(obs[t].preUsers, frame[t].user_id)

OldRow(t) == TheRow(obs[t].preUsers, frame[t].user_id)

CurRow(t) == TheRow(users, frame[t].user_id)

ReturnedEvent(t) ==
  obs[t].result = "returned" /\ obs[t].returned = <<frame[t].event>>

\* every users row of another subject id is as it was before the invocation
OthersUntouched(t) ==
  /\ Len(users) = Len(obs[t].preUsers)
  /\ \A i \in 1..Len(users) :
       users[i].user_id # frame[t].user_id => users[i] = obs[t].preUsers[i]

Chars(s) == { s[i] : i \in 1..Len(s) }

\* n is the part of e before its first '@' (all of e when it has none)
IsLocalPart(n, e) ==
  /\ Len(n) <= Len(e)
  /\ n = SubSeq(e, 1, Len(n))
  /\ "@" \notin Chars(n)
  /\ Len(n) = Len(e) \/ e[Len(n) + 1] = "@"

BobEvent ==
  [sub |-> "u1", email |-> <<"b", "@", "x">>, preferred_username |-> None]

\* ------------------------------------------------------------------ claims

\* the event meets the handler's stated precondition: a confirmation event
\* carries an email
WellFormed(t) == IsConf(t) => frame[t].event.email # None

\* C1: no error leaves a handler: every finished invocation of a well-formed
\* event, whatever failed on the way (pool creation, acquisition, a query,
\* commit, rollback), has returned the event it was given.
NoErrorPropagates ==
  \A t \in Threads : (Done(t) /\ WellFormed(t)) => ReturnedEvent(t)

\* C2: an invocation takes at most one connection out of the pool, and when
\* it has finished, with or without a database failure at any step, every
\* pool's count of checked-out connections is what it was when it began.
ConnectionAlwaysReturned ==
  \A t \in Threads :
    /\ obs[t].acquired <= 1
    /\ Done(t) => checkedOut = obs[t].baseline

\* C2 witness: a finished invocation that took a connection and then lost
\* the database at the rollback.
ConnectionReturnedAfterOutage ==
  \E t \in Threads :
    /\ Done(t)
    /\ obs[t].acquired = 1
    /\ "rollback" \in obs[t].failedAt
    /\ checkedOut = obs[t].baseline

\* C3: a confirmation for a subject id without a users row that completes
\* without a database error leaves exactly one users row for it, carrying the
\* event's email, the derived nickname and status 'active', and a
\* user_profiles row for it; {sub: u1, email: b@x} yields nickname b.
NewUserSynced ==
  \A t \in Threads :
    (Done(t) /\ IsConf(t) /\ ~Known(t) /\ obs[t].path = "ok") =>
      /\ Cardinality(RowsOf(users, frame[t].user_id)) = 1
      /\ CurRow(t).email = frame[t].event.email
      /\ CurRow(t).nickname = frame[t].nickname
      /\ CurRow(t).status = "active"
      /\ HasRow(user_profiles, frame[t].user_id)
      /\ frame[t].event = BobEvent =>
           /\ CurRow(t).email = <<"b", "@", "x">>
           /\ CurRow(t).nickname = <<"b">>

\* C3 witness: the concrete scenario has run to a successful end.
BobSynced ==
  \E t \in Threads :
    /\ Done(t) /\ IsConf(t) /\ ~Known(t) /\ obs[t].path = "ok"
    /\ frame[t].event = BobEvent
    /\ HasRow(users, "u1") /\ HasRow(user_profiles, "u1")

\* C4: a confirmation for a subject id that already has a users row changes
\* nothing of that row but email, nickname and updated_at (set when it
\* commits), leaves every other users row and the whole of user_profiles as
\* they were, and the subject id still has a single profile row.
ExistingUserRefreshed ==
  \A t \in Threads :
    (Done(t) /\ IsConf(t) /\ Known(t)) =>
      /\ Cardinality(RowsOf(users, frame[t].user_id)) = 1
      /\ CurRow(t).created_at = OldRow(t).created_at
      /\ CurRow(t).status = OldRow(t).status
      /\ CurRow(t).last_login = OldRow(t).last_login
      /\ OthersUntouched(t)
      /\ user_profiles = obs[t].preProfiles
      /\ Cardinality(RowsOf(user_profiles, frame[t].user_id)) = 1
      /\ obs[t].path = "ok" =>
           /\ CurRow(t).email = frame[t].event.email
           /\ CurRow(t).nickname = frame[t].nickname
           /\ CurRow(t).updated_at >= obs[t].callStart
      /\ obs[t].path # "ok" => CurRow(t) = OldRow(t)

\* C4 witness: a committed refresh of a row that had another email, an
\* earlier updated_at and a last_login.
RefreshHappened ==
  \E t \in Threads :
    /\ Done(t) /\ IsConf(t) /\ Known(t) /\ obs[t].path = "ok"
    /\ CurRow(t).email # OldRow(t).email
    /\ CurRow(t).updated_at > CurRow(t).created_at
    /\ OldRow(t).last_login # NullTime

\* C5 as stated: the nickname written is the email's local part when the
\* event has no preferred_username, and preferred_username when it has one.
NicknameFromPresentUsername ==
  \A t \in Threads :
    (Done(t) /\ IsConf(t) /\ obs[t].path = "ok") =>
      IF frame[t].event.preferred_username = None
      THEN IsLocalPart(CurRow(t).nickname, frame[t].event.email)
      ELSE CurRow(t).nickname = frame[t].event.preferred_username

\* C5 amended: the nickname written is preferred_username when the event has
\* a non-empty one, and the email's local part when preferred_username is
\* absent or empty.
NicknameFromNonEmptyUsername ==
  \A t \in Threads :
    (Done(t) /\ IsConf(t) /\ obs[t].path = "ok") =>
      IF /\ frame[t].event.preferred_username # None
         /\ frame[t].event.preferred_username # <<>>
      THEN CurRow(t).nickname = frame[t].event.preferred_username
      ELSE IsLocalPart(CurRow(t).nickname, frame[t].event.email)

\* C5 witness: an event with an empty preferred_username and an email with
\* two '@' was written with the part before the first one.
EmptyUsernameFellBack ==
  \E t \in Threads :
    /\ Done(t) /\ IsConf(t) /\ obs[t].path = "ok"
    /\ frame[t].event.preferred_username = <<>>
    /\ frame[t].event.email = <<"a", "@", "@">>
    /\ CurRow(t).nickname = <<"a">>

\* C6: a login for a subject id that has a users row, completed without a
\* database error, returns the event and leaves last_login at or after the
\* time the call began; no other column of the row, no other users row and
\* no user_profiles row is changed.
LastLoginUpdated ==
  \A t \in Threads :
    (Done(t) /\ IsAuth(t) /\ Known(t) /\ obs[t].failedAt = {}) =>
      /\ ReturnedEvent(t)
      /\ Cardinality(RowsOf(users, frame[t].user_id)) = 1
      /\ CurRow(t).last_login >= obs[t].callStart
      /\ CurRow(t) = [OldRow(t) EXCEPT !.last_login = CurRow(t).last_login]
      /\ OthersUntouched(t)
      /\ user_profiles = obs[t].preProfiles

\* C6 witness: a login that began after time had passed moved last_login,
\* with another user's row in the table.
LoginRecorded ==
  \E t \in Threads :
    /\ Done(t) /\ IsAuth(t) /\ Known(t) /\ obs[t].failedAt = {}
    /\ obs[t].callStart > 0
    /\ CurRow(t).last_login # OldRow(t).last_login
    /\ CurRow(t).updated_at < obs[t].callStart
    /\ Len(users) = 2

\* C7: a login for a subject id without a users row (or with no sub at all)
\* returns the event without raising, changes no row of either table, and,
\* when no database call failed, went down the 'user not found' path.
UnknownLoginHarmless ==
  \A t \in Threads :
    (Done(t) /\ IsAuth(t) /\ ~Known(t)) =>
      /\ ReturnedEvent(t)
      /\ users = obs[t].preUsers
      /\ user_profiles = obs[t].preProfiles
      /\ obs[t].failedAt = {} => obs[t].path = "notfound"

\* C8: when BEGIN, the upsert or the profile insert of a confirmation
\* fails, the committed tables are what they were before the invocation and
\* the event is returned.
FailedConfirmationRolledBack ==
  \A t \in Threads :
    (Done(t) /\ IsConf(t)
       /\ obs[t].failedAt \cap {"begin", "upsert", "profile"} # {}) =>
      /\ users = obs[t].preUsers
      /\ user_profiles = obs[t].preProfiles
      /\ ReturnedEvent(t)

\* C9: in each process at most one pool is ever constructed, and all
\* invocations of the process hold that pool.
PoolCreatedAtMostOnce ==
  /\ \A h \in Handlers : poolsCreated[h] <= 1
  /\ \A t \in Threads :
       frame[t].pool \in {NoPool, connection_pool[frame[t].handler]}

\* C10: in the committed tables every subject id has at most one users row
\* and at most one user_profiles row, and has the one exactly when it has
\* the other.
OneToOne ==
  /\ Len(users) = Len(user_profiles)
  /\ \A s \in Subs \cup {NoSub} :
       /\ Cardinality(RowsOf(users, s)) <= 1
       /\ Cardinality(RowsOf(user_profiles, s)) <= 1
       /\ HasRow(users, s) <=> HasRow(user_profiles, s)

\* C10 witness: two users and their profiles are in the tables and the last
\* confirmation, for one of them, failed at its profile insert.
TwoUsersAfterFailure ==
  \E t \in Threads :
    /\ Done(t) /\ IsConf(t) /\ Known(t)
    /\ "profile" \in obs[t].failedAt
    /\ Len(users) = 2 /\ Len(user_profiles) = 2

====
